---- MODULE Spec2Model ----
(***************************************************************************)
(* Model of the request / cache pipeline of yatta.YattaAPI                 *)
(* (src/yatta/client.py): client lifecycle, version-token gating through   *)
(* the file ./.cache/yatta/version.txt, HTTP status classification and the *)
(* cached / cache-bypassing transport.                                     *)
(*                                                                         *)
(* Text is a sequence of one-character strings.  time.time() is modelled   *)
(* in whole seconds counted from the start of the run; its decimal         *)
(* rendering in the version file is the digit string of that integer.      *)
(* Every coroutine is cut at its await points: one action is one stretch   *)
(* of code that runs without yielding to the event loop.                   *)
(*                                                                         *)
(* Specifications:                                                         *)
(*   Spec       one caller at a time, client started or not yet started    *)
(*   SpecLife   one caller at a time, start() and close() at any moment    *)
(*   SpecFile   one caller, any short text in version.txt                  *)
(*   SpecConc   two concurrent callers                                     *)
(*   SpecCancel two concurrent callers that may be cancelled               *)
(*   SpecLang   one caller, client.lang assigned at any moment             *)
(*   SpecFair   one caller, calls in progress eventually resumed           *)
(*                                                                         *)
(* and of the normalization layer (src/yatta/utils.py, src/yatta/models):  *)
(*   SpecSubst   replace_placeholders and the eidolon description          *)
(*   SpecFormat  format_str and the formatted fields of a record           *)
(*   SpecIcon    icon fields and the derived icon properties               *)
(*   SpecFlatten maps keyed by id turned into lists of records             *)
(*   SpecModel   null and absent values of a payload                       *)
(*   SpecBuild   an eidolon or a set effect validated field by field       *)
(***************************************************************************)
EXTENDS Integers, Sequences, FiniteSets, TLC

\* ------------------------------------------------------------------ bounds
MaxCalls == 3
MaxTicks == 2
MaxFileLen == 3
MaxCloses == 2
MaxFileCalls == 1
MaxConcCalls == 2

Tasks == {1, 2}

\* ------------------------------------------------------- program constants
\* 60 * 60 * 24 of _get_version
DAY == 60 * 60 * 24

Tokens == {<<"a">>, <<"b">>}
Statuses == {200, 204, 404, 500, 522}
FileAlphabet == {"a", ",", "0", "9"}
ConcStatuses == {200, 404}
Methods == {"fetch_characters", "fetch_character_detail",
            "fetch_changelogs", "fetch_latest_version"}

VARIABLES
    session,      \* self._session: "none", "open" or "closed"
    isCached,     \* whether self._session is a CachedSession
    lang,         \* self.lang
    cache,        \* URLs the cache backend holds a response for
    fileExists,   \* whether ./.cache/yatta/version.txt exists
    fileData,     \* its content
    now,          \* time.time()
    ticks,        \* number of clock advances so far
    saved,        \* the texts _save_version has finished writing so far
    calls,        \* number of facade calls started so far
    released,     \* number of session.close() invocations made by close()
    closeCalls,   \* number of close() calls so far
    closeRaised,  \* some close() call raised
    restarted,    \* start() has been called after a close() that released
    pc,           \* per call: position in the coroutine
    arg,          \* per call: method, endpoint, static, use_cache
    inner,        \* per call: inside the nested fetch_latest_version
    url,          \* per call: URL of the outer _request
    version,      \* per call: the local variable version of _request
    buf,          \* per call: pending text of the open version.txt handle
    result,       \* per call: what the facade caller observes
    log,          \* per call: the I/O events of the call, in order
    raw,          \* the raw text or payload handed to a pure operation
    stage,        \* the pure operation applied to raw so far
    built         \* the results of the operations applied, in order

vars == <<session, isCached, lang, cache, fileExists, fileData, saved, now, ticks,
          calls, released, closeCalls, closeRaised, restarted,
          pc, arg, inner, url, version, buf, result, log,
          raw, stage, built>>

\* the variables of the normalization layer, which the client only calls
textVars == <<raw, stage, built>>

\* the variables of the client
pipeVars == <<session, isCached, lang, cache, fileExists, fileData, saved,
              now, ticks, calls, released, closeCalls, closeRaised, restarted,
              pc, arg, inner, url, version, buf, result, log>>

clientVars == <<session, isCached, lang, released, closeCalls,
                closeRaised, restarted>>
fileVars == <<fileExists, fileData, saved>>
clockVars == <<now, ticks>>

\* ---------------------------------------------------------------- strings
DigitChars == <<"0", "1", "2", "3", "4", "5", "6", "7", "8", "9">>
DigitSet == {DigitChars[i] : i \in 1..10}
DigitVal(c) == (CHOOSE i \in 1..10 : DigitChars[i] = c) - 1

RECURSIVE Digits(_)
\* str() of a non-negative whole number of seconds
Digits(n) == IF n < 10 THEN <<DigitChars[n + 1]>>
             ELSE Digits(n \div 10) \o <<DigitChars[(n % 10) + 1]>>

\* float(s) raises ValueError unless s is a numeral
IsFloat(s) == Len(s) > 0 /\ \A i \in 1..Len(s) : s[i] \in DigitSet

RECURSIVE ParseFloat(_)
ParseFloat(s) == IF Len(s) = 0 THEN 0
                 ELSE 10 * ParseFloat(SubSeq(s, 1, Len(s) - 1)) + DigitVal(s[Len(s)])

RECURSIVE Split(_)
\* data.split(",")
Split(s) ==
    IF \A i \in 1..Len(s) : s[i] # ","
    THEN <<s>>
    ELSE LET i == CHOOSE k \in 1..Len(s) :
                      s[k] = "," /\ \A j \in 1..(k - 1) : s[j] # ","
         IN <<SubSeq(s, 1, i - 1)>> \o Split(SubSeq(s, i + 1, Len(s)))

RECURSIVE SeqsUpTo(_, _)
SeqsUpTo(S, n) == IF n = 0 THEN {<<>>}
                  ELSE LET R == SeqsUpTo(S, n - 1)
                       IN R \cup {Append(r, c) : r \in {x \in R : Len(x) = n - 1}, c \in S}

\* ------------------------------------------------------------ exceptions
NoResult == [kind |-> "none", code |-> 0]
Json == [kind |-> "json", code |-> 200]
RuntimeError == [kind |-> "RuntimeError", code |-> 0]
CancelledError == [kind |-> "CancelledError", code |-> 0]
ClientConnectionError == [kind |-> "ClientConnectionError", code |-> 0]

YattaAPIError(code) == [kind |-> "YattaAPIError", code |-> code]
DataNotFoundError == [kind |-> "DataNotFoundError", code |-> 404]
ConnectionTimeoutError == [kind |-> "ConnectionTimeoutError", code |-> 522]

HandleErrorNoTimeout(code) ==
    IF code = 404 THEN DataNotFoundError ELSE YattaAPIError(code)

\* YattaAPI._handle_error
HandleError(code) ==
    CASE code = 404 -> DataNotFoundError
      [] code = 522 -> ConnectionTimeoutError
      [] OTHER -> YattaAPIError(code)

NotServerError(status) == status < 500

\* resp.status != 200 guards _handle_error
IsSuccess(status) == status = 200

\* ------------------------------------------------------------------ URLs
NoUrl == [seg |-> "", endpoint |-> "", hasVh |-> FALSE, vh |-> <<>>]

BaseUrlCarriesVh(static, l, endpoint) ==
    [seg |-> IF static THEN "static" ELSE l, endpoint |-> endpoint,
     hasVh |-> TRUE, vh |-> <<>>]

\* f"{BASE_URL}/static/{endpoint}" or f"{BASE_URL}/{lang}/{endpoint}"
BaseUrl(static, l, endpoint) ==
    [seg |-> IF static THEN "static" ELSE l, endpoint |-> endpoint,
     hasVh |-> FALSE, vh |-> <<>>]

WithoutVh(u, v) == u

\* url += f"?vh={version}"
WithVh(u, v) == [u EXCEPT !.hasVh = TRUE, !.vh = v]

\* the _request call each facade method makes
FacadeRequest(method, useCache) ==
    CASE method = "fetch_characters" ->
           [method |-> method, endpoint |-> "avatar", static |-> FALSE,
            useCache |-> useCache]
      [] method = "fetch_character_detail" ->
           [method |-> method, endpoint |-> "avatar/0", static |-> FALSE,
            useCache |-> useCache]
      [] method = "fetch_changelogs" ->
           [method |-> method, endpoint |-> "changelog", static |-> TRUE,
            useCache |-> useCache]
      [] OTHER ->
           [method |-> "fetch_latest_version", endpoint |-> "version",
            static |-> TRUE, useCache |-> FALSE]

NoArg == [method |-> "", endpoint |-> "", static |-> FALSE, useCache |-> FALSE]

\* ------------------------------------------------------- version.txt file
NoVersion == [has |-> FALSE, tok |-> <<>>, why |-> "none"]

GetVersionNoAgeCheck(exists, data, t) ==
    IF ~exists THEN [has |-> FALSE, tok |-> <<>>, why |-> "absent"]
    ELSE LET parts == Split(data)
         IN IF Len(parts) # 2 \/ ~IsFloat(parts[2])
            THEN [has |-> FALSE, tok |-> <<>>, why |-> "malformed"]
            ELSE [has |-> TRUE, tok |-> parts[1], why |-> "fresh"]

\* YattaAPI._get_version: None for FileNotFoundError, for the ValueError of
\* the two-name unpacking or of float(), and for an age above 24 hours
GetVersion(exists, data, t) ==
    IF ~exists THEN [has |-> FALSE, tok |-> <<>>, why |-> "absent"]
    ELSE LET parts == Split(data)
         IN IF Len(parts) # 2
            THEN [has |-> FALSE, tok |-> <<>>, why |-> "malformed"]
            ELSE IF ~IsFloat(parts[2])
            THEN [has |-> FALSE, tok |-> <<>>, why |-> "malformed"]
            ELSE IF t - ParseFloat(parts[2]) > DAY
            THEN [has |-> FALSE, tok |-> <<>>, why |-> "old"]
            ELSE [has |-> TRUE, tok |-> parts[1], why |-> "fresh"]

\* f"{version},{time.time()}"
FormatVersion(v, t) == v \o <<",">> \o Digits(t)

\* write(2) of text at offset 0 of a handle opened with mode "w"
Overwrite(content, text) ==
    text \o SubSeq(content, Len(text) + 1, Len(content))

\* ------------------------------------------------------------- _request
EntryGatesVersion(sess, endpoint) ==
    IF sess = "none" THEN "raise" ELSE "get_version"

EntryChecksLate(sess, endpoint) ==
    IF endpoint # "version" THEN "get_version"
    ELSE IF sess = "none" THEN "raise" ELSE "send"

\* the start of _request: the session check, then the version gate
Entry(sess, endpoint) ==
    IF sess = "none" THEN "raise"
    ELSE IF endpoint # "version" THEN "get_version"
    ELSE "send"

IgnoresUseCache(useCache, cached) == cached

\* whether session.get() goes through the cache backend: not inside
\* session.disabled(), and only a CachedSession has one
ConsultsCache(useCache, cached) ==
    IF ~useCache /\ cached THEN FALSE ELSE cached

DefaultOnError(outcome) == Json

\* data = await self._request(...): an exception passes through the facade
FacadeOutcome(outcome) == outcome

SessionClosed == [kind |-> "RuntimeError: Session is closed", code |-> 0]

\* ---------------------------------------------------------------- events
Ev(e, u, tok, status, note) ==
    [ev |-> e, url |-> u, tok |-> tok, status |-> status, note |-> note]

CurUrlBuiltAtSend(t) ==
    IF inner[t] THEN BaseUrl(TRUE, lang, "version")
    ELSE [url[t] EXCEPT !.seg = IF arg[t].static THEN "static" ELSE lang]

\* the request the call is making: the nested version request or its own
CurUrl(t) == IF inner[t] THEN BaseUrl(TRUE, lang, "version") ELSE url[t]
CurUseCache(t) == IF inner[t] THEN FALSE ELSE arg[t].useCache

\* -------------------------------------------------------------- lifecycle
AlwaysNewSession(sess) == "open"

\* self._session = self._session or CachedSession(...)
StartSession(sess) == IF sess # "none" THEN sess ELSE "open"

CloseUnguarded(sess) ==
    [session |-> IF sess # "none" THEN "closed" ELSE sess,
     released |-> IF sess # "none" THEN 1 ELSE 0,
     raised |-> sess = "none"]

\* YattaAPI.close: session.close() only when a session is present
CloseSession(sess) ==
    [session |-> IF sess # "none" THEN "closed" ELSE sess,
     released |-> IF sess # "none" THEN 1 ELSE 0,
     raised |-> FALSE]

InitFiles == SeqsUpTo(FileAlphabet, MaxFileLen)

\* what an earlier run of the program leaves in version.txt
LeftFiles == {FormatVersion(v, 0) : v \in Tokens}

\* no operation of the normalization layer is under way
InitText ==
    /\ raw = <<>>
    /\ stage = "none"
    /\ built = <<>>

\* the client before its first call
IdleClient ==
    /\ session = "open"
    /\ isCached = TRUE
    /\ fileExists = FALSE
    /\ fileData = <<>>

InitCommon ==
    /\ lang = "en"
    /\ cache = {}
    /\ saved = {}
    /\ now = 0
    /\ ticks = 0
    /\ calls = 0
    /\ released = 0
    /\ closeCalls = 0
    /\ closeRaised = FALSE
    /\ restarted = FALSE
    /\ pc = [t \in Tasks |-> "idle"]
    /\ arg = [t \in Tasks |-> NoArg]
    /\ inner = [t \in Tasks |-> FALSE]
    /\ url = [t \in Tasks |-> NoUrl]
    /\ version = [t \in Tasks |-> NoVersion]
    /\ buf = [t \in Tasks |-> <<>>]
    /\ result = [t \in Tasks |-> NoResult]
    /\ log = [t \in Tasks |-> <<>>]

\* YattaAPI.__init__, with or without an injected session; version.txt is
\* absent or left by an earlier run
Init ==
    /\ session \in {"none", "open"}
    /\ isCached \in BOOLEAN
    /\ (session = "none" => isCached)
    /\ \/ fileExists = FALSE /\ fileData = <<>>
       \/ fileExists = TRUE /\ fileData \in LeftFiles
    /\ InitCommon
    /\ InitText

\* clock readings on both sides of the 24 hour limit for short timestamps
Clocks == {0, DAY, DAY + 9, DAY + 10}

\* a started client that finds any short text in version.txt, at any of
\* the clock readings
InitFile ==
    /\ session = "open"
    /\ isCached = TRUE
    /\ \/ fileExists = FALSE /\ fileData = <<>>
       \/ fileExists = TRUE /\ fileData \in InitFiles
    /\ lang = "en"
    /\ cache = {}
    /\ saved = {}
    /\ now \in Clocks
    /\ ticks = 0
    /\ calls = 0
    /\ released = 0
    /\ closeCalls = 0
    /\ closeRaised = FALSE
    /\ restarted = FALSE
    /\ pc = [t \in Tasks |-> "idle"]
    /\ arg = [t \in Tasks |-> NoArg]
    /\ inner = [t \in Tasks |-> FALSE]
    /\ url = [t \in Tasks |-> NoUrl]
    /\ version = [t \in Tasks |-> NoVersion]
    /\ buf = [t \in Tasks |-> <<>>]
    /\ result = [t \in Tasks |-> NoResult]
    /\ log = [t \in Tasks |-> <<>>]
    /\ InitText

\* a started client with no version.txt yet
InitConc ==
    /\ IdleClient
    /\ InitCommon
    /\ InitText

\* YattaAPI.start
Start ==
    /\ session' = StartSession(session)
    /\ isCached' = IF session = "none" THEN TRUE ELSE isCached
    /\ restarted' = (restarted \/ released > 0)
    /\ UNCHANGED <<lang, released, closeCalls, closeRaised>>
    /\ UNCHANGED <<cache, fileVars, clockVars, calls,
                   pc, arg, inner, url, version, buf, result, log>>
    /\ UNCHANGED textVars

\* YattaAPI.close
Close ==
    /\ closeCalls < MaxCloses
    /\ LET eff == CloseSession(session)
       IN /\ session' = eff.session
          /\ released' = released + eff.released
          /\ closeRaised' = (closeRaised \/ eff.raised)
    /\ closeCalls' = closeCalls + 1
    /\ UNCHANGED <<isCached, lang, restarted>>
    /\ UNCHANGED <<cache, fileVars, clockVars, calls,
                   pc, arg, inner, url, version, buf, result, log>>
    /\ UNCHANGED textVars

\* time passes
Tick(d) ==
    /\ ticks < MaxTicks
    /\ now' = now + d
    /\ ticks' = ticks + 1
    /\ UNCHANGED <<clientVars, cache, fileVars, calls,
                   pc, arg, inner, url, version, buf, result, log>>
    /\ UNCHANGED textVars

\* an entry of the cache backend passes its expire_after
CacheExpire(u) ==
    /\ u \in cache
    /\ cache' = cache \ {u}
    /\ UNCHANGED <<clientVars, fileVars, clockVars, calls,
                   pc, arg, inner, url, version, buf, result, log>>
    /\ UNCHANGED textVars

\* ------------------------------------------------------------ facade calls
\* a facade method is called: _request runs up to its first await
Call(t, m, uc) ==
    /\ pc[t] = "idle"
    /\ calls < MaxCalls
    /\ calls' = calls + 1
    /\ LET a == FacadeRequest(m, uc)
           e == Entry(session, a.endpoint)
       IN /\ arg' = [arg EXCEPT ![t] = a]
          /\ url' = [url EXCEPT ![t] = BaseUrl(a.static, lang, a.endpoint)]
          /\ pc' = [pc EXCEPT ![t] = IF e = "raise" THEN "done" ELSE e]
          /\ result' = [result EXCEPT ![t] =
                            IF e = "raise" THEN FacadeOutcome(RuntimeError)
                            ELSE NoResult]
    /\ inner' = [inner EXCEPT ![t] = FALSE]
    /\ version' = [version EXCEPT ![t] = NoVersion]
    /\ buf' = [buf EXCEPT ![t] = <<>>]
    /\ log' = [log EXCEPT ![t] = <<>>]
    /\ UNCHANGED <<clientVars, cache, fileVars, clockVars>>
    /\ UNCHANGED textVars

\* version = await self._get_version(); on None the nested
\* fetch_latest_version enters _request("version", static=True)
GetVersionStep(t) ==
    /\ pc[t] = "get_version"
    /\ LET r == GetVersion(fileExists, fileData, now)
           e == Entry(session, "version")
       IN /\ log' = [log EXCEPT ![t] =
                 Append(@, Ev("read", NoUrl, fileData, now,
                              IF fileExists THEN "exists" ELSE "absent"))]
          /\ version' = [version EXCEPT ![t] = r]
          /\ IF r.has
             THEN /\ url' = [url EXCEPT ![t] = WithVh(@, r.tok)]
                  /\ pc' = [pc EXCEPT ![t] = "send"]
                  /\ UNCHANGED <<inner, result>>
             ELSE /\ inner' = [inner EXCEPT ![t] = (e # "raise")]
                  /\ pc' = [pc EXCEPT ![t] = IF e = "raise" THEN "done" ELSE e]
                  /\ result' = [result EXCEPT ![t] =
                         IF e = "raise" THEN FacadeOutcome(RuntimeError) ELSE @]
                  /\ UNCHANGED url
    /\ UNCHANGED <<clientVars, cache, fileVars, clockVars, calls, arg, buf>>
    /\ UNCHANGED textVars

\* what a response with this status does to the call: _handle_error raises,
\* a nested version response returns data["data"]["vh"] to the outer
\* _request, any other response is returned to the facade
Deliver(t, status, tok, lg) ==
    /\ log' = [log EXCEPT ![t] = lg]
    /\ cache' = IF IsSuccess(status) /\ ConsultsCache(CurUseCache(t), isCached)
                THEN cache \cup {CurUrl(t)} ELSE cache
    /\ IF ~IsSuccess(status)
       THEN /\ result' = [result EXCEPT ![t] = FacadeOutcome(HandleError(status))]
            /\ pc' = [pc EXCEPT ![t] = "done"]
            /\ UNCHANGED <<inner, version>>
       ELSE IF inner[t]
       THEN /\ version' = [version EXCEPT ![t] =
                               [has |-> TRUE, tok |-> tok, why |-> "refreshed"]]
            /\ inner' = [inner EXCEPT ![t] = FALSE]
            /\ pc' = [pc EXCEPT ![t] = "save_open"]
            /\ UNCHANGED result
       ELSE /\ result' = [result EXCEPT ![t] = FacadeOutcome(Json)]
            /\ pc' = [pc EXCEPT ![t] = "done"]
            /\ UNCHANGED <<inner, version>>

\* async with self._session.get(url): on a closed session aiohttp raises;
\* a CachedSession that is not disabled looks the URL up first and answers
\* from the cache on a hit
Send(t, tok) ==
    /\ pc[t] = "send"
    /\ IF session # "open"
       THEN /\ result' = [result EXCEPT ![t] = FacadeOutcome(SessionClosed)]
            /\ pc' = [pc EXCEPT ![t] = "done"]
            /\ UNCHANGED <<cache, inner, version, log>>
       ELSE IF ConsultsCache(CurUseCache(t), isCached)
       THEN IF CurUrl(t) \in cache
            THEN Deliver(t, 200, tok,
                         log[t] \o <<Ev("lookup", CurUrl(t), <<>>, 0, "hit")>>)
            ELSE /\ log' = [log EXCEPT ![t] = @ \o
                        <<Ev("lookup", CurUrl(t), <<>>, 0, "miss"),
                          Ev("net", CurUrl(t), <<>>, 0, "")>>]
                 /\ pc' = [pc EXCEPT ![t] = "wait"]
                 /\ UNCHANGED <<cache, inner, version, result>>
       ELSE /\ log' = [log EXCEPT ![t] =
                           Append(@, Ev("net", CurUrl(t), <<>>, 0, ""))]
            /\ pc' = [pc EXCEPT ![t] = "wait"]
            /\ UNCHANGED <<cache, inner, version, result>>
    /\ UNCHANGED <<clientVars, fileVars, clockVars, calls, arg, url, buf>>
    /\ UNCHANGED textVars

\* upstream answers the request in flight
Response(t, status, tok) ==
    /\ pc[t] = "wait"
    /\ Deliver(t, status, tok,
               Append(log[t], Ev("resp", CurUrl(t),
                                 IF inner[t] /\ IsSuccess(status) THEN tok ELSE <<>>,
                                 status, "")))
    /\ UNCHANGED <<clientVars, fileVars, clockVars, calls, arg, url, buf>>
    /\ UNCHANGED textVars

\* the request in flight is lost because the session was closed under it
Abort(t) ==
    /\ pc[t] = "wait"
    /\ session = "closed"
    /\ result' = [result EXCEPT ![t] = FacadeOutcome(ClientConnectionError)]
    /\ pc' = [pc EXCEPT ![t] = "done"]
    /\ UNCHANGED <<clientVars, cache, fileVars, clockVars, calls,
                   arg, inner, url, version, buf, log>>
    /\ UNCHANGED textVars

\* _save_version: mkdir, then aiofiles.open(..., "w") creates or truncates
SaveOpen(t) ==
    /\ pc[t] = "save_open"
    /\ fileExists' = TRUE
    /\ fileData' = <<>>
    /\ buf' = [buf EXCEPT ![t] = <<>>]
    /\ pc' = [pc EXCEPT ![t] = "save_write"]
    /\ UNCHANGED <<clientVars, cache, saved, clockVars, calls,
                   arg, inner, url, version, result, log>>
    /\ UNCHANGED textVars

\* _save_version: f.write(f"{version},{time.time()}") into the handle's buffer
SaveWrite(t) ==
    /\ pc[t] = "save_write"
    /\ buf' = [buf EXCEPT ![t] = FormatVersion(version[t].tok, now)]
    /\ pc' = [pc EXCEPT ![t] = "save_close"]
    /\ UNCHANGED <<clientVars, cache, fileVars, clockVars, calls,
                   arg, inner, url, version, result, log>>
    /\ UNCHANGED textVars

\* _save_version: leaving the async with closes the handle, which flushes
\* the buffer at the handle's offset; then url += f"?vh={version}"
SaveClose(t) ==
    /\ pc[t] = "save_close"
    /\ fileData' = Overwrite(fileData, buf[t])
    /\ saved' = saved \cup {buf[t]}
    /\ log' = [log EXCEPT ![t] =
                   Append(@, Ev("write", NoUrl, buf[t], 0, ""))]
    /\ buf' = [buf EXCEPT ![t] = <<>>]
    /\ url' = [url EXCEPT ![t] = WithVh(@, version[t].tok)]
    /\ pc' = [pc EXCEPT ![t] = "send"]
    /\ UNCHANGED <<clientVars, cache, fileExists, clockVars, calls,
                   arg, inner, version, result>>
    /\ UNCHANGED textVars

\* the awaiting task is cancelled: CancelledError is raised at its await; an
\* open version.txt handle is closed by the async with on the way out
Cancel(t) ==
    /\ pc[t] \in {"get_version", "send", "wait", "save_open", "save_write",
                  "save_close"}
    /\ fileData' = IF pc[t] \in {"save_write", "save_close"}
                   THEN Overwrite(fileData, buf[t]) ELSE fileData
    /\ log' = [log EXCEPT ![t] = Append(@, Ev("cancel", NoUrl, <<>>, 0, pc[t]))]
    /\ buf' = [buf EXCEPT ![t] = <<>>]
    /\ result' = [result EXCEPT ![t] = FacadeOutcome(CancelledError)]
    /\ pc' = [pc EXCEPT ![t] = "done"]
    /\ UNCHANGED <<clientVars, cache, fileExists, saved, clockVars, calls,
                   arg, inner, url, version>>
    /\ UNCHANGED textVars

\* the caller has received the result or the exception
Return(t) ==
    /\ pc[t] = "done"
    /\ pc' = [pc EXCEPT ![t] = "idle"]
    /\ arg' = [arg EXCEPT ![t] = NoArg]
    /\ inner' = [inner EXCEPT ![t] = FALSE]
    /\ url' = [url EXCEPT ![t] = NoUrl]
    /\ version' = [version EXCEPT ![t] = NoVersion]
    /\ buf' = [buf EXCEPT ![t] = <<>>]
    /\ result' = [result EXCEPT ![t] = NoResult]
    /\ log' = [log EXCEPT ![t] = <<>>]
    /\ UNCHANGED <<clientVars, cache, fileVars, clockVars, calls>>
    /\ UNCHANGED textVars

\* one caller at a time on a client that is started or not yet started
Next ==
    \/ Start
    \/ Tick(DAY)
    \/ \E u \in cache : CacheExpire(u)
    \/ \E m \in Methods, uc \in BOOLEAN : Call(1, m, uc)
    \/ GetVersionStep(1)
    \/ \E tok \in Tokens : Send(1, tok)
    \/ \E s \in Statuses, tok \in Tokens : Response(1, s, tok)
    \/ SaveOpen(1)
    \/ SaveWrite(1)
    \/ SaveClose(1)
    \/ Return(1)

Spec == Init /\ [][Next]_vars

\* one caller at a time, with start() and close() at any moment
NextLife ==
    \/ Start
    \/ Close
    \/ \E m \in {"fetch_characters", "fetch_latest_version"} : Call(1, m, TRUE)
    \/ GetVersionStep(1)
    \/ \E tok \in Tokens : Send(1, tok)
    \/ \E s \in ConcStatuses, tok \in Tokens : Response(1, s, tok)
    \/ Abort(1)
    \/ SaveOpen(1)
    \/ SaveWrite(1)
    \/ SaveClose(1)
    \/ Return(1)

SpecLife == Init /\ [][NextLife]_vars

\* one caller at a time on a started client, any version.txt
NextFile ==
    \/ calls < MaxFileCalls /\ \E m \in Methods : Call(1, m, TRUE)
    \/ GetVersionStep(1)
    \/ \E tok \in Tokens : Send(1, tok)
    \/ \E s \in ConcStatuses, tok \in Tokens : Response(1, s, tok)
    \/ SaveOpen(1)
    \/ SaveWrite(1)
    \/ SaveClose(1)
    \/ Return(1)

SpecFile == InitFile /\ [][NextFile]_vars

\* concurrent callers of one started client (asyncio.gather of facade calls)
NextConc ==
    \/ Tick(DAY)
    \/ calls < MaxConcCalls /\ \E t \in Tasks : Call(t, "fetch_characters", TRUE)
    \/ \E t \in Tasks : GetVersionStep(t)
    \/ \E t \in Tasks, tok \in Tokens : Send(t, tok)
    \/ \E t \in Tasks, s \in ConcStatuses, tok \in Tokens : Response(t, s, tok)
    \/ \E t \in Tasks : SaveOpen(t)
    \/ \E t \in Tasks : SaveWrite(t)
    \/ \E t \in Tasks : SaveClose(t)
    \/ \E t \in Tasks : Return(t)

SpecConc == InitConc /\ [][NextConc]_vars

\* concurrent callers, any of which may be cancelled while it awaits
NextCancel ==
    \/ NextConc
    \/ \E t \in Tasks : Cancel(t)

SpecCancel == InitConc /\ [][NextCancel]_vars

\* ---------------------------------------------------------------- claims
Last(L) == L[Len(L)]
ErrorKinds == {"DataNotFoundError", "ConnectionTimeoutError", "YattaAPIError"}
IsVersionUrl(u) == u.endpoint = "version"
NetIdx(L) == {i \in DOMAIN L : L[i].ev = "net"}

\* the text is "<token>,<timestamp>" with a numeral as timestamp
CommaIdx(s) == {i \in DOMAIN s : s[i] = ","}
TokenPart(s) == SubSeq(s, 1, (CHOOSE i \in CommaIdx(s) : TRUE) - 1)
StampPart(s) == SubSeq(s, (CHOOSE i \in CommaIdx(s) : TRUE) + 1, Len(s))
WellFormed(s) == Cardinality(CommaIdx(s)) = 1 /\ IsFloat(StampPart(s))
StoredFresh(e) ==
    /\ e.note = "exists"
    /\ WellFormed(e.tok)
    /\ e.status - ParseFloat(StampPart(e.tok)) <= DAY
StoredOld(e) ==
    /\ e.note = "exists"
    /\ WellFormed(e.tok)
    /\ e.status - ParseFloat(StampPart(e.tok)) > DAY

\* C1: right after a response with status s, the request has returned the
\* JSON body when s = 200, raised DataNotFoundError when s = 404,
\* ConnectionTimeoutError when s = 522 and YattaAPIError with code s for
\* every other s; a result is only ever produced by status 200.
C1_StatusClassification ==
    \A t \in Tasks :
        (Len(log[t]) > 0 /\ Last(log[t]).ev = "resp") =>
            LET e == Last(log[t])
                s == e.status
            IN /\ s = 200 =>
                     IF IsVersionUrl(e.url) /\ arg[t].endpoint # "version"
                     THEN pc[t] \in {"save_open", "save_write", "save_close"}
                          /\ version[t].has
                          /\ version[t].tok = e.tok /\ result[t] = NoResult
                     ELSE pc[t] = "done" /\ result[t] = [kind |-> "json", code |-> 200]
               /\ s = 404 => pc[t] = "done"
                     /\ result[t] = [kind |-> "DataNotFoundError", code |-> 404]
               /\ s = 522 => pc[t] = "done"
                     /\ result[t] = [kind |-> "ConnectionTimeoutError", code |-> 522]
               /\ s \notin {200, 404, 522} => pc[t] = "done"
                     /\ result[t] = [kind |-> "YattaAPIError", code |-> s]
               /\ result[t].kind = "json" => s = 200

C1_Witness ==
    /\ pc[1] = "done"
    /\ Len(log[1]) > 0
    /\ Last(log[1]).ev = "resp"
    /\ Last(log[1]).status = 522
    /\ result[1].kind = "ConnectionTimeoutError"

\* C2: a resource request issued by a call whose read of version.txt found a
\* token older than 24 hours is preceded, in this order, by exactly one
\* version request, its 200 response, and the completed write of
\* "<refreshed token>,<time>" to version.txt, and carries vh = that token.
C2_RefreshBeforeResource ==
    \A t \in Tasks :
        LET L == log[t]
        IN /\ \A i \in NetIdx(L) :
                (~IsVersionUrl(L[i].url) /\ L[1].ev = "read" /\ StoredOld(L[1])) =>
                    /\ Cardinality({j \in NetIdx(L) : IsVersionUrl(L[j].url)}) = 1
                    /\ \E j, k, l \in 1..(i - 1) :
                          /\ j < k /\ k < l
                          /\ L[j].ev = "net" /\ IsVersionUrl(L[j].url)
                          /\ L[k].ev = "resp" /\ L[k].status = 200
                          /\ L[l].ev = "write"
                          /\ Len(L[l].tok) > Len(L[k].tok)
                          /\ SubSeq(L[l].tok, 1, Len(L[k].tok) + 1) = L[k].tok \o <<",">>
                          /\ L[i].url.hasVh
                          /\ L[i].url.vh = L[k].tok
           /\ (Len(L) > 0 /\ Last(L).ev = "write") =>
                 fileExists /\ fileData = Last(L).tok

C2_Witness ==
    /\ Len(log[1]) >= 5
    /\ StoredOld(log[1][1])
    /\ Last(log[1]).ev = "net"
    /\ ~IsVersionUrl(Last(log[1]).url)
    /\ Last(log[1]).url.vh # TokenPart(log[1][1].tok)

\* C3: the read of version.txt yields the stored token, and no version
\* request follows, exactly when the file exists, is "<token>,<numeral>" and
\* is at most 24 hours old; in every other case the read raises nothing and
\* the refresh (the version request) is what the call does next.
C3_StoredTokenGate ==
    \A t \in Tasks :
        LET L == log[t]
        IN (Len(L) > 0 /\ L[1].ev = "read") =>
              IF StoredFresh(L[1])
              THEN /\ \A i \in NetIdx(L) : ~IsVersionUrl(L[i].url)
                   /\ Len(L) = 1 =>
                         /\ pc[t] = "send" /\ ~inner[t]
                         /\ url[t].hasVh /\ url[t].vh = TokenPart(L[1].tok)
              ELSE /\ Len(L) = 1 =>
                         /\ pc[t] = "send" /\ inner[t]
                         /\ result[t] = NoResult /\ ~url[t].hasVh
                   /\ Len(L) > 1 => L[2].ev = "net" /\ IsVersionUrl(L[2].url)

C3_Witness ==
    /\ Len(log[1]) > 1
    /\ log[1][1].ev = "read"
    /\ log[1][1].note = "exists"
    /\ Cardinality(CommaIdx(log[1][1].tok)) = 2
    /\ log[1][2].ev = "net"
    /\ IsVersionUrl(log[1][2].url)

C5_ErrorPropagates ==
    \A t \in Tasks :
        LET L == log[t]
        IN \A i \in DOMAIN L :
              (L[i].ev = "resp" /\ L[i].status # 200) =>
                  /\ i = Len(L)
                  /\ pc[t] = "done"
                  /\ result[t].kind \in ErrorKinds
                  /\ result[t].code = L[i].status
                  /\ L[i].status = 404 => result[t].kind = "DataNotFoundError"
                  /\ Cardinality({j \in NetIdx(L) : L[j].url = L[i].url}) = 1

C5_Witness ==
    /\ pc[1] = "done"
    /\ arg[1].method = "fetch_character_detail"
    /\ Len(log[1]) > 0
    /\ Last(log[1]).ev = "resp"
    /\ Last(log[1]).url.endpoint = "avatar/0"
    /\ Last(log[1]).status = 404
    /\ result[1].kind = "DataNotFoundError"

\* C6: the cache is never looked up for a version request nor for any
\* request of a call made with use_cache = False; such a call that returns
\* data got it from a 200 response of the network.
C6_CacheBypass ==
    \A t \in Tasks :
        LET L == log[t]
        IN /\ \A i \in DOMAIN L :
                L[i].ev = "lookup" => (arg[t].useCache /\ ~IsVersionUrl(L[i].url))
           /\ (pc[t] = "done" /\ result[t].kind = "json" /\ ~arg[t].useCache) =>
                 /\ Last(L).ev = "resp" /\ Last(L).status = 200
                 /\ L[Len(L) - 1].ev = "net"
                 /\ L[Len(L) - 1].url = Last(L).url

C6_Witness ==
    /\ pc[1] = "done"
    /\ arg[1].method = "fetch_characters"
    /\ ~arg[1].useCache
    /\ isCached
    /\ url[1] \in cache
    /\ result[1].kind = "json"
    /\ Last(log[1]).ev = "resp"

\* C7: whenever no _save_version is in progress and at least one has
\* finished, version.txt holds exactly one of the complete
\* "<token>,<timestamp>" texts that the refreshes wrote.
C7_NoMixedWrites ==
    ((\A t \in Tasks : pc[t] \notin {"save_open", "save_write", "save_close"})
        /\ saved # {})
    => (fileExists /\ fileData \in saved)

\* C8: what _get_version reads from an existing version.txt is always a
\* complete text written by some _save_version, never an empty or partly
\* written file, also while another call is inside _save_version or was
\* cancelled there.
C8_AtomicWrite ==
    \A t \in Tasks :
        (Len(log[t]) > 0 /\ Last(log[t]).ev = "read"
            /\ Last(log[t]).note = "exists")
        => Last(log[t]).tok \in saved

\* C9: once close() has closed a session, the client's session stays
\* closed: no start() and no facade call makes it open again.
C9_ClosedIsTerminal ==
    released > 0 => session = "closed"

C9_Witness ==
    /\ released > 0
    /\ restarted
    /\ session = "closed"
    /\ pc[1] = "done"
    /\ result[1] = SessionClosed

\* C10: a close() call on a client that has no session raises nothing,
\* closes nothing and leaves every part of the client as it was, however
\* many times it is called.
C10_CloseUnstartedNoop ==
    [][(session = "none" /\ closeCalls' # closeCalls) =>
          /\ session' = "none"
          /\ released' = released
          /\ ~closeRaised'
          /\ UNCHANGED <<isCached, lang, restarted, cache, fileExists, fileData,
                         saved, now, ticks, calls, pc, arg, inner, url,
                         version, buf, result, log>>]_vars

C10_Witness ==
    /\ session = "none"
    /\ closeCalls >= 2
    /\ released = 0
    /\ ~closeRaised

\* ------------------------------------------------------- request language
\* two of the members of yatta.enums.Language
Langs == {"en", "jp"}
MaxLangCalls == 2

\* client.lang = l
SetLang(l) ==
    /\ l # lang
    /\ lang' = l
    /\ UNCHANGED <<session, isCached, released, closeCalls, closeRaised,
                   restarted>>
    /\ UNCHANGED <<cache, fileVars, clockVars, calls,
                   pc, arg, inner, url, version, buf, result, log>>
    /\ UNCHANGED textVars

\* one caller at a time on a started client whose lang is reassigned at any
\* moment, also while a call is awaiting
NextLang ==
    \/ \E l \in Langs : SetLang(l)
    \/ calls < MaxLangCalls
          /\ \E m \in {"fetch_characters", "fetch_changelogs"} : Call(1, m, TRUE)
    \/ GetVersionStep(1)
    \/ \E tok \in Tokens : Send(1, tok)
    \/ \E s \in ConcStatuses, tok \in Tokens : Response(1, s, tok)
    \/ SaveOpen(1)
    \/ SaveWrite(1)
    \/ SaveClose(1)
    \/ Return(1)

SpecLang == InitConc /\ [][NextLang]_vars

\* C11: the URL of a call is fixed when the call is made, as
\* BASE_URL/static/<endpoint> for a static endpoint and
\* BASE_URL/<lang at that moment>/<endpoint> otherwise; every request the
\* call issues later goes to that URL (or to static/version), whatever
\* client.lang has become in the meantime.
C11_UrlLanguage ==
    [][\A t \in Tasks :
          /\ (pc[t] = "idle" /\ pc'[t] # "idle") =>
                /\ url'[t].endpoint = arg'[t].endpoint
                /\ url'[t].seg = IF arg'[t].static THEN "static" ELSE lang
          /\ (pc[t] # "idle" /\ pc'[t] # "idle") =>
                /\ url'[t].seg = url[t].seg
                /\ url'[t].endpoint = url[t].endpoint
          /\ \A i \in NetIdx(log'[t]) \ NetIdx(log[t]) :
                \/ log'[t][i].url = url'[t]
                \/ /\ log'[t][i].url.seg = "static"
                   /\ log'[t][i].url.endpoint = "version"
                   /\ arg'[t].endpoint # "version"]_vars

C11_Witness ==
    /\ calls = 2
    /\ lang = "en"
    /\ pc[1] = "wait"
    /\ arg[1].method = "fetch_characters"
    /\ Last(log[1]).ev = "net"
    /\ Last(log[1]).url.seg = "jp"
    /\ Last(log[1]).url.endpoint = "avatar"

\* ---------------------------------------------------- placeholder parameters
\* the greatest number of pieces of a generated text, and of values of a list
MaxPieces == 3
MaxParams == 2

\* an exception leaving a function of the normalization layer
Raised(e) == [ok |-> FALSE, err |-> e, text |-> <<>>]
Returned(s) == [ok |-> TRUE, err |-> "", text |-> s]

\* text[i:].startswith(pat), i counted from 1
StartsAt(text, pat, i) ==
    /\ i + Len(pat) - 1 <= Len(text)
    /\ SubSeq(text, i, i + Len(pat) - 1) = pat

\* pat in text
Contains(text, pat) == \E i \in 1..(Len(text) + 1) : StartsAt(text, pat, i)

\* text.find(pat): the lowest index counted from 0, -1 when absent
Find(text, pat) ==
    IF Contains(text, pat)
    THEN (CHOOSE i \in 1..(Len(text) + 1) :
              StartsAt(text, pat, i) /\ \A j \in 1..(i - 1) : ~StartsAt(text, pat, j)) - 1
    ELSE -1

RECURSIVE Replace(_, _, _)
\* text.replace(pat, rep): every occurrence, left to right, pat not empty
Replace(text, pat, rep) ==
    IF Len(text) < Len(pat) THEN text
    ELSE IF StartsAt(text, pat, 1)
         THEN rep \o Replace(SubSeq(text, Len(pat) + 1, Len(text)), pat, rep)
         ELSE <<Head(text)>> \o Replace(Tail(text), pat, rep)

\* text[index] of a str: IndexError outside -len..len-1
GetItem(text, index) ==
    IF index >= Len(text) \/ index < 0 - Len(text) THEN Raised("IndexError")
    ELSE IF index >= 0 THEN Returned(<<text[index + 1]>>)
         ELSE Returned(<<text[Len(text) + index + 1]>>)

find_next_letter(text, placeholder) ==
    LET index == Find(text, placeholder) + Len(placeholder)
    IN GetItem(text, index)

\* f"#i[{i}]" and f"#{key}[i]"
ListPlaceholder(i) == <<"#", "i", "[">> \o Digits(i) \o <<"]">>
DictPlaceholder(key) == <<"#">> \o key \o <<"[", "i", "]">>

NoParams == [kind |-> "None", items |-> <<>>]
ListParams(items) == [kind |-> "list", items |-> items]
DictParams(items) == [kind |-> "dict", items |-> items]

RECURSIVE ReplaceList(_, _, _)
\* the loop of replace_placeholders over enumerate(params), from index i
ReplaceList(string, params, i) ==
    IF i >= Len(params) THEN Returned(string)
    ELSE LET placeholder == ListPlaceholder(i)
         IN IF ~Contains(string, placeholder) THEN ReplaceList(string, params, i + 1)
            ELSE LET next == find_next_letter(string, placeholder)
                     value == params[i + 1]
                 IN IF ~next.ok THEN next
                    ELSE LET value_ == IF next.text = <<"%">> THEN value * 100 ELSE value
                         IN ReplaceList(Replace(string, placeholder, Digits(value_)),
                                        params, i + 1)

RECURSIVE ReplaceDict(_, _, _)
\* the loop of replace_placeholders over params.items(), from entry n
ReplaceDict(string, params, n) ==
    IF n > Len(params) THEN Returned(string)
    ELSE LET values == params[n].values
             placeholder == DictPlaceholder(params[n].key)
         IN IF Len(values) = 0 THEN Raised("IndexError")
            ELSE IF ~Contains(string, placeholder) THEN ReplaceDict(string, params, n + 1)
            ELSE LET next == find_next_letter(string, placeholder)
                 IN IF ~next.ok THEN next
                    ELSE LET value == IF next.text = <<"%">> THEN values[1] * 100
                                      ELSE values[1]
                         IN ReplaceDict(Replace(string, placeholder, Digits(value)),
                                        params, n + 1)

replace_placeholders(string, params) ==
    IF params.kind = "None" THEN Returned(string)
    ELSE IF params.kind = "list" THEN ReplaceList(string, params.items, 0)
    ELSE ReplaceDict(string, params.items, 1)

\* ------------------------------------------------------- text normalization
\* the lowest index j >= i with text[j] = c, 0 when there is none
IndexFrom(text, c, i) ==
    IF \E j \in i..Len(text) : text[j] = c
    THEN CHOOSE j \in i..Len(text) : text[j] = c /\ \A k \in i..(j - 1) : text[k] # c
    ELSE 0

\* open.*?close matched at i: the index of its last character, 0 when it does
\* not match there ("." matches no newline)
LazyMatch(text, open, close, i) ==
    IF ~StartsAt(text, open, i) THEN 0
    ELSE LET j == IndexFrom(text, close, i + Len(open))
         IN IF j = 0 \/ \E k \in (i + Len(open))..(j - 1) : text[k] = "\n" THEN 0 ELSE j

SpritePrefix == <<"{", "S", "P", "R", "I", "T", "E", "_", "P", "R", "E", "S", "E", "T", "#">>
RubyBegin == <<"{", "R", "U", "B", "Y", "_", "B">>
RubyEnd == <<"{", "R", "U", "B", "Y", "_", "E", "#", "}">>

\* \{SPRITE_PRESET#[^\}]+\} matched at i
SpriteMatch(text, i) ==
    IF ~StartsAt(text, SpritePrefix, i) THEN 0
    ELSE LET j == IndexFrom(text, "}", i + Len(SpritePrefix))
         IN IF j > i + Len(SpritePrefix) THEN j ELSE 0

\* \{RUBY_B[^}]*\} matched at i
RubyMatch(text, i) ==
    IF ~StartsAt(text, RubyBegin, i) THEN 0 ELSE IndexFrom(text, "}", i + Len(RubyBegin))

\* the regular expressions of utils.py matched at i
MatchEnd(pattern, text, i) ==
    CASE pattern = "clean" ->
             LET e == LazyMatch(text, <<"<">>, ">", i)
             IN IF e # 0 THEN e ELSE SpriteMatch(text, i)
      [] pattern = "female" -> LazyMatch(text, <<"{", "F", "#">>, "}", i)
      [] pattern = "male" -> LazyMatch(text, <<"{", "M", "#">>, "}", i)
      [] pattern = "ruby" -> RubyMatch(text, i)

RECURSIVE Sub(_, _, _, _)
\* re.sub(pattern, repl, text), scanning from i; repl holds no backslash
Sub(pattern, repl, text, i) ==
    IF i > Len(text) THEN <<>>
    ELSE LET e == MatchEnd(pattern, text, i)
         IN IF e # 0 THEN repl \o Sub(pattern, repl, text, e + 1)
            ELSE <<text[i]>> \o Sub(pattern, repl, text, i + 1)

\* re.search(pattern, text): where the first match starts, 0 when no match
Search(pattern, text) ==
    IF \E i \in 1..Len(text) : MatchEnd(pattern, text, i) # 0
    THEN CHOOSE i \in 1..Len(text) :
             /\ MatchEnd(pattern, text, i) # 0
             /\ \A j \in 1..(i - 1) : MatchEnd(pattern, text, j) = 0
    ELSE 0

\* match.group(1) of the pronoun patterns
Group1(pattern, text) ==
    LET i == Search(pattern, text)
    IN SubSeq(text, i + 3, MatchEnd(pattern, text, i) - 1)

replace_pronouns(text) ==
    IF Search("female", text) # 0 /\ Search("male", text) # 0
    THEN LET replacement == Group1("female", text) \o <<"/">> \o Group1("male", text)
             t1 == Sub("female", replacement, text, 1)
             t2 == Sub("male", <<>>, t1, 1)
         IN Replace(t2, <<"#">>, <<>>)
    ELSE text

remove_ruby_tags(text) == Sub("ruby", <<>>, Replace(text, RubyEnd, <<>>), 1)

format_str(text) ==
    remove_ruby_tags(replace_pronouns(
        Replace(Sub("clean", <<>>, text, 1), <<"\\", "n">>, <<"\n">>)))

\* ------------------------------------------------------------------ eidolons
\* CharacterEidolon(**payload): the description field, through its own
\* validator and then through the formatting of every model
CharacterEidolon(payload) ==
    LET d == replace_placeholders(format_str(payload.text), payload.params)
    IN IF d.ok THEN Returned(format_str(d.text)) ELSE d

\* the pieces generated texts are made of
SubstPieces == {ListPlaceholder(0), ListPlaceholder(1), DictPlaceholder(<<"k">>),
                <<"%">>, <<"x">>}

RECURSIVE Concat(_)
Concat(ps) == IF Len(ps) = 0 THEN <<>> ELSE Head(ps) \o Concat(Tail(ps))

\* the texts of at most n pieces
TextsOf(pieces, n) == {Concat(ps) : ps \in SeqsUpTo(pieces, n)}

ParamValues == {3, 20}
ParamLists == SeqsUpTo(ParamValues, MaxParams)
ParamDicts == {<<[key |-> <<"k">>, values |-> vs]>> : vs \in SeqsUpTo(ParamValues, 1)}
                  \cup {<<[key |-> <<"j">>, values |-> <<3>>], [key |-> <<"k">>, values |-> <<20>>]>>}
AllParams == {NoParams} \cup {ListParams(l) : l \in ParamLists}
                 \cup {DictParams(d) : d \in ParamDicts}

\* the eidolon payload of the test data: params [10, 20]
Scenario3 == [text |-> <<"D", "a", "m", "a", "g", "e", " ", "#", "i", "[", "0", "]", "%", " ", "i", "n", "c", "r", "e", "a", "s", "e", "d", " ", "b", "y", " ", "#", "i", "[", "1", "]">>,
              params |-> ListParams(<<10, 20>>)]

SubstInputs == {[text |-> t, params |-> p] : t \in TextsOf(SubstPieces, MaxPieces),
                                              p \in AllParams} \cup {Scenario3}

InitSubst ==
    /\ IdleClient
    /\ InitCommon
    /\ raw \in SubstInputs
    /\ stage = "none"
    /\ built = <<>>

\* replace_placeholders(raw.text, raw.params)
ApplyReplacePlaceholders ==
    /\ stage = "none"
    /\ stage' = "replace_placeholders"
    /\ built' = <<replace_placeholders(raw.text, raw.params)>>
    /\ UNCHANGED <<raw, pipeVars>>

\* CharacterEidolon(**raw)
BuildEidolon ==
    /\ stage = "none"
    /\ stage' = "CharacterEidolon"
    /\ built' = <<CharacterEidolon(raw)>>
    /\ UNCHANGED <<raw, pipeVars>>

NextSubst == ApplyReplacePlaceholders \/ BuildEidolon

SpecSubst == InitSubst /\ [][NextSubst]_vars

\* C12: building an eidolon from params [10, 20] and the description
\* 'Damage #i[0]% increased by #i[1]' succeeds with the description
\* 'Damage 1000 increased by 20'
C12_Scenario3Description ==
    (stage = "CharacterEidolon" /\ raw = Scenario3)
        => built = <<Returned(<<"D", "a", "m", "a", "g", "e", " ", "1", "0", "0", "0", " ", "i", "n", "c", "r", "e", "a", "s", "e", "d", " ", "b", "y", " ", "2", "0">>)>>

\* the placeholder tokens params gives a value to, each with its value
TokenValues(params) ==
    IF params.kind = "list"
    THEN {<<ListPlaceholder(i - 1), params.items[i]>> : i \in DOMAIN params.items}
    ELSE IF params.kind = "dict"
    THEN {<<DictPlaceholder(e.key), e.values[1]>> :
              e \in {params.items[n] : n \in {k \in DOMAIN params.items :
                                                 Len(params.items[k].values) > 0}}}
    ELSE {}

RECURSIVE PerOccurrence(_, _, _)
\* text from index i on, each token occurrence replaced by its value, times
\* 100 exactly when '%' follows that occurrence
PerOccurrence(text, tv, i) ==
    IF i > Len(text) THEN <<>>
    ELSE IF \E p \in tv : StartsAt(text, p[1], i)
    THEN LET p == CHOOSE q \in tv : StartsAt(text, q[1], i)
             after == i + Len(p[1])
             v == IF after <= Len(text) /\ text[after] = "%" THEN p[2] * 100 ELSE p[2]
         IN Digits(v) \o PerOccurrence(text, tv, after)
    ELSE <<text[i]>> \o PerOccurrence(text, tv, i + 1)

\* C13: whenever replace_placeholders returns, every occurrence of a token is
\* replaced by 100 x its value exactly when '%' follows that occurrence, and
\* by the value itself otherwise
C13_PerOccurrenceScaling ==
    (stage = "replace_placeholders" /\ built[1].ok)
        => built[1].text = PerOccurrence(raw.text, TokenValues(raw.params), 1)

\* every entry of a key-to-list mapping has a first value
HasValues(params) ==
    params.kind = "dict" => \A n \in DOMAIN params.items : Len(params.items[n].values) > 0

\* C14: replace_placeholders returns a string and never raises, whatever the
\* text and the params, a token that ends the text included
C14_Total ==
    (stage = "replace_placeholders" /\ HasValues(raw.params)) => built[1].ok

\* ------------------------------------------------------------ marked-up text
\* the pieces of the game's markup generated texts are made of
MarkupPieces == {<<"{", "F", "#", "a", "}">>, <<"{", "M", "#", "b", "}">>, <<"{", "F", "#", "c", "}">>, <<"{", "M", "#", "d", "}">>,
                 <<"<">>, <<">">>, <<"\\">>, <<"n">>, <<"\n">>, <<"#">>,
                 RubyEnd, RubyBegin, <<"}">>, SpritePrefix}

MarkupInputs == {[text |-> t, params |-> NoParams] : t \in TextsOf(MarkupPieces, MaxPieces)}

InitFormat ==
    /\ IdleClient
    /\ InitCommon
    /\ raw \in MarkupInputs
    /\ stage = "none"
    /\ built = <<>>

\* format_str(raw.text)
ApplyFormatStr ==
    /\ stage = "none"
    /\ stage' = "format_str"
    /\ built' = <<format_str(raw.text)>>
    /\ UNCHANGED <<raw, pipeVars>>

\* format_str applied to the text format_str returned
ApplyFormatStrAgain ==
    /\ stage = "format_str"
    /\ stage' = "format_str twice"
    /\ built' = Append(built, format_str(built[1]))
    /\ UNCHANGED <<raw, pipeVars>>

fields_to_format == {"name", "description", "story", "text"}

\* BaseModel.__format_fields: format_str over the fields of those names (the
\* string fields of a record are texts)
FormatFields(record) ==
    [f \in DOMAIN record |->
        IF f \in fields_to_format THEN format_str(record[f]) ELSE record[f]]

\* CharacterStory(**payload): fields title and text
CharacterStory(payload) == FormatFields([title |-> payload.title, text |-> payload.text])

\* a story entry of a character payload built into its record
BuildCharacterStory ==
    /\ stage = "none"
    /\ stage' = "CharacterStory"
    /\ built' = <<CharacterStory([title |-> raw.text, text |-> raw.text])>>
    /\ UNCHANGED <<raw, pipeVars>>

NextFormat == ApplyFormatStr \/ ApplyFormatStrAgain \/ BuildCharacterStory

SpecFormat == InitFormat /\ [][NextFormat]_vars

FemaleWords == {<<"a">>, <<"c">>}
MaleWords == {<<"b">>, <<"d">>}

\* C15: format_str of a text that contains a {F#a} and a {M#b} token contains
\* 'a/b' and no '#'
C15_PronounPair ==
    stage = "format_str" =>
        \A a \in FemaleWords, b \in MaleWords :
            (/\ Contains(raw.text, <<"{", "F", "#">> \o a \o <<"}">>)
             /\ Contains(raw.text, <<"{", "M", "#">> \o b \o <<"}">>))
                => /\ Contains(built[1], a \o <<"/">> \o b)
                   /\ ~Contains(built[1], <<"#">>)

\* C16: format_str applied to its own output returns that output unchanged
C16_Idempotent == stage = "format_str twice" => built[2] = built[1]

RubyEndStem == <<"{", "R", "U", "B", "Y", "_", "E">>

\* no tag, sprite token, ruby marker or its remnant, or pronoun pair is in s
NoMarkup(s) ==
    /\ \A i \in 1..Len(s) : MatchEnd("clean", s, i) = 0
    /\ \A i \in 1..Len(s) : MatchEnd("ruby", s, i) = 0
    /\ \A i \in 1..Len(s) :
           StartsAt(s, RubyEndStem, i) => IndexFrom(s, "}", i + Len(RubyEndStem)) = 0
    /\ ~(Search("female", s) # 0 /\ Search("male", s) # 0)

\* C17: the text field of a record that was built holds no raw markup,
\* whatever markup the payload held
C17_NoRawMarkup == stage = "CharacterStory" => NoMarkup(built[1].text)

\* ----------------------------------------------------------------- icon URLs
AssetBase == <<"h", "t", "t", "p", "s", ":", "/", "/", "s", "r", ".", "y", "a", "t", "t", "a", ".", "m", "o", "e", "/", "h", "s", "r", "/", "a", "s", "s", "e", "t", "s", "/", "U", "I", "/">>
Png == <<".", "p", "n", "g">>
Avatar == <<"a", "v", "a", "t", "a", "r">>
Equipment == <<"e", "q", "u", "i", "p", "m", "e", "n", "t">>
SkillIcon == <<"S", "k", "i", "l", "l", "I", "c", "o", "n">>

\* f"https://sr.yatta.moe/hsr/assets/UI/{subpath}/{v}.png"
AssetUrl(subpath, v) == AssetBase \o subpath \o <<"/">> \o v \o Png

\* the icon field of the records, from the raw key v
Status(v) == [icon |-> AssetUrl(<<"s", "t", "a", "t", "u", "s">>, v)]
ExtraEffect(v) == [icon |-> v]
BaseSkill(v) ==
    [icon |-> IF Contains(v, SkillIcon) THEN AssetUrl(<<"s", "k", "i", "l", "l">>, v)
              ELSE AssetUrl(<<"s", "t", "a", "t", "u", "s">>, v)]
RecipeMaterial(v) == [icon |-> AssetUrl(<<"i", "t", "e", "m">>, v)]
Character(v) == [icon |-> AssetUrl(Avatar, v)]
LightCone(v) == [icon |-> AssetUrl(Equipment, v)]

RecordTypes == {"Status", "ExtraEffect", "BaseSkill", "RecipeMaterial", "Character",
                "LightCone"}

BuildOf(cls, v) ==
    CASE cls = "Status" -> Status(v)
      [] cls = "ExtraEffect" -> ExtraEffect(v)
      [] cls = "BaseSkill" -> BaseSkill(v)
      [] cls = "RecipeMaterial" -> RecipeMaterial(v)
      [] cls = "Character" -> Character(v)
      [] cls = "LightCone" -> LightCone(v)

\* the sizes of the derived icon properties of a record type
Sizes(cls) ==
    CASE cls = "Character" -> {<<"m", "e", "d", "i", "u", "m">>, <<"l", "a", "r", "g", "e">>, <<"r", "o", "u", "n", "d">>}
      [] cls = "LightCone" -> {<<"m", "e", "d", "i", "u", "m">>, <<"l", "a", "r", "g", "e">>}
      [] OTHER -> {}

\* the path segment the derived properties of a record type replace
Segment(cls) == IF cls = "Character" THEN Avatar ELSE Equipment

\* medium_icon, large_icon, round_icon: self.icon.replace(seg, seg + "/" + size)
DerivedIcon(cls, icon, size) ==
    Replace(icon, Segment(cls), Segment(cls) \o <<"/">> \o size)

\* the pieces raw icon keys are made of
KeyPieces == {<<"1">>, Avatar, Equipment, SkillIcon}

IconInputs == {[icon |-> k] : k \in TextsOf(KeyPieces, MaxPieces) \ {<<>>}}

InitIcon ==
    /\ IdleClient
    /\ InitCommon
    /\ raw \in IconInputs
    /\ stage = "none"
    /\ built = <<>>

\* cls(icon=raw.icon, ...)
BuildRecord(cls) ==
    /\ stage = "none"
    /\ stage' = cls
    /\ built' = <<BuildOf(cls, raw.icon)>>
    /\ UNCHANGED <<raw, pipeVars>>

\* record.medium_icon, record.large_icon or record.round_icon
ReadDerivedIcon(size) ==
    /\ stage \in RecordTypes
    /\ size \in Sizes(stage)
    /\ Len(built) = 1
    /\ built' = Append(built, [size |-> size, icon |-> DerivedIcon(stage, built[1].icon, size)])
    /\ UNCHANGED <<raw, stage, pipeVars>>

NextIcon ==
    \/ \E cls \in RecordTypes : BuildRecord(cls)
    \/ \E size \in Sizes("Character") : ReadDerivedIcon(size)

SpecIcon == InitIcon /\ [][NextIcon]_vars

Subpaths == {<<"s", "t", "a", "t", "u", "s">>, <<"s", "k", "i", "l", "l">>, <<"i", "t", "e", "m">>, Avatar, Equipment}

\* C18: the icon field of every record is the asset URL of the raw key, never
\* the raw key itself
C18_IconIsAssetUrl ==
    stage \in RecordTypes =>
        /\ \E subpath \in Subpaths : built[1].icon = AssetUrl(subpath, raw.icon)
        /\ built[1].icon # raw.icon

\* C19: a derived icon is the icon with the size put after the path segment
\* and the raw key unchanged, also for keys that contain 'avatar' or
\* 'equipment'
C19_DerivedIconKeepsKey ==
    (stage \in {"Character", "LightCone"} /\ Len(built) = 2) =>
        built[2].icon = AssetUrl(Segment(stage) \o <<"/">> \o built[2].size, raw.icon)

\* ------------------------------------------------------ keyed collections
\* the greatest number of entries of a generated map
MaxEntries == 2

\* int(key) of a key of digits
IntOf(key) == ParseFloat(key)

\* the value of a map entry: with or without an "id" of its own
NoId == [hasId |-> FALSE, id |-> 0]
OwnId(n) == [hasId |-> TRUE, id |-> n]

\* Cls(**value): the id of the record is the value's own; a value without
\* one fails validation
FromValue(value) ==
    IF value.hasId THEN [ok |-> TRUE, err |-> "", id |-> value.id]
    ELSE [ok |-> FALSE, err |-> "ValidationError", id |-> 0]

\* Cls(id=int(key), **value): a value with an "id" of its own repeats the
\* keyword argument
FromKey(key, value) ==
    IF value.hasId THEN [ok |-> FALSE, err |-> "TypeError", id |-> 0]
    ELSE [ok |-> TRUE, err |-> "", id |-> IntOf(key)]

\* a list comprehension over the entries: the first failure leaves it
Collect(records) ==
    IF \E i \in DOMAIN records : ~records[i].ok
    THEN [ok |-> FALSE,
          err |-> records[CHOOSE i \in DOMAIN records :
                              ~records[i].ok /\ \A j \in 1..(i - 1) : records[j].ok].err,
          items |-> <<>>]
    ELSE [ok |-> TRUE, err |-> "", items |-> records]

\* [Book(**b) for b in data["data"]["items"].values()], and the same for
\* characters, items, light cones and relic sets
FlattenValues(entries) == Collect([i \in DOMAIN entries |-> FromValue(entries[i].value)])

\* Changelog(id=int(changelog_id), **log) for each entry, and the same for
\* book series and skill lists
FlattenKeys(entries) ==
    Collect([i \in DOMAIN entries |-> FromKey(entries[i].key, entries[i].value)])

Flattenings == {"fetch_books", "fetch_changelogs", "BookDetail.series", "BaseSkill.skill_list"}

FlattenOf(how, entries) ==
    IF how = "fetch_books" THEN FlattenValues(entries) ELSE FlattenKeys(entries)

MapKeys == {<<"1">>, <<"2">>, <<"1", "0">>}
MapValues == {NoId} \cup {OwnId(n) : n \in {1, 2, 10}}

\* the maps of at most MaxEntries entries, no key twice
MapInputs ==
    {m \in SeqsUpTo([key : MapKeys, value : MapValues], MaxEntries) :
        \A i, j \in DOMAIN m : i # j => m[i].key # m[j].key}

InitFlatten ==
    /\ IdleClient
    /\ InitCommon
    /\ raw \in MapInputs
    /\ stage = "none"
    /\ built = <<>>

\* a map of the payload turned into a list of records
Flatten(how) ==
    /\ stage = "none"
    /\ stage' = how
    /\ built' = <<FlattenOf(how, raw)>>
    /\ UNCHANGED <<raw, pipeVars>>

NextFlatten == \E how \in Flattenings : Flatten(how)

SpecFlatten == InitFlatten /\ [][NextFlatten]_vars

\* every value of the map carries an id of its own, the one its key names
CarriesOwnId(m) ==
    \A i \in DOMAIN m : m[i].value.hasId /\ m[i].value.id = IntOf(m[i].key)

\* C20: flattening a map whose values carry their own id does not fail, and
\* the id of each record is int(key) of the entry it was built from
C20_IdIsKey ==
    (stage \in Flattenings /\ CarriesOwnId(raw)) =>
        /\ built[1].ok
        /\ Len(built[1].items) = Len(raw)
        /\ \A i \in DOMAIN raw : built[1].items[i].id = IntOf(raw[i].key)

\* ------------------------------------------------- null and absent values
\* JSON values of a payload: null, an integer, a list or map of entries
Null == [t |-> "null", v |-> <<>>]
Integer(n) == [t |-> "int", v |-> <<n>>]
Collection(l) == [t |-> "list", v |-> l]
Datetime(n) == [t |-> "datetime", v |-> <<n>>]

\* bool(v) of a payload value
Truthy(v) ==
    CASE v.t = "null" -> FALSE
      [] v.t = "int" -> v.v # <<0>>
      [] v.t = "list" -> Len(v.v) > 0
      [] OTHER -> TRUE

\* an exception other than a validation error leaving a validator
Fault(e) == [t |-> "raise", v |-> <<e>>]

\* the mode="before" validators of the models, by the shape of their body
Convert(conv, v) ==
    CASE conv = "v or 0" -> IF Truthy(v) THEN v ELSE Integer(0)
      [] conv = "v or []" -> IF Truthy(v) THEN v ELSE Collection(<<>>)
      [] conv = "[... for x in v] if v else []" -> IF Truthy(v) THEN v ELSE Collection(<<>>)
      [] conv = "[... for x in v]" -> IF v.t = "list" THEN v ELSE Fault("TypeError")
      [] conv = "[... for k, x in v.items()]" ->
             IF v.t = "list" THEN v ELSE Fault("AttributeError")
      [] conv = "fromtimestamp(v) if v else None" ->
             IF Truthy(v) THEN Datetime(v.v[1]) ELSE Null
      [] OTHER -> v

\* the value fits the annotation of the field
TypeOk(type, v) ==
    CASE type = "int" -> v.t = "int"
      [] type = "list" -> v.t = "list"
      [] type = "datetime | None" -> v.t \in {"datetime", "null"}

\* a field of a model: its name, the payload key (alias), its annotation,
\* whether it has a default, the default, and its before validator
Field(name, key, type, required, default, conv) ==
    [name |-> name, key |-> key, type |-> type, required |-> required,
     default |-> default, conv |-> conv]

\* the fields of the models, in the order of their declaration
Fields(cls) ==
    CASE cls = "CharacterDetail" ->
             <<Field("release", "release", "int", TRUE, Null, ""),
               Field("eidolons", "eidolons", "list", TRUE, Null, "[... for x in v]"),
               Field("ascension", "ascension", "list", TRUE, Null,
                     "[... for k, x in v.items()]"),
               Field("release_at", "release", "datetime | None", FALSE, Null,
                     "fromtimestamp(v) if v else None")>>
      [] cls = "Character" ->
             <<Field("release_at", "release", "datetime | None", FALSE, Null,
                     "fromtimestamp(v) if v else None")>>
      [] cls = "SkillListSkill" ->
             <<Field("skill_points", "skillPoints", "list", TRUE, Null,
                     "[... for k, x in v.items()]"),
               Field("weakness_break", "weaknessBreak", "list", TRUE, Null,
                     "[... for x in v] if v else []"),
               Field("traces", "traces", "list", TRUE, Null, "v or []")>>
      [] cls = "SkillTree" ->
             <<Field("tree", "tree", "list", FALSE, Collection(<<>>), "[... for x in v]")>>
      [] cls = "BookDetail" ->
             <<Field("series", "series", "list", TRUE, Null,
                     "[... for k, x in v.items()]")>>
      [] cls = "LightConeDetail" ->
             <<Field("upgrades", "upgrade", "list", TRUE, Null, "[... for x in v]")>>
      [] cls = "CharacterUpgrade" ->
             <<Field("cost_items", "costItems", "list", TRUE, Null,
                     "[... for x in v] if v else []"),
               Field("required_player_level", "playerLevelRequire", "int", TRUE, Null,
                     "v or 0"),
               Field("required_world_level", "worldLevelRequire", "int", TRUE, Null,
                     "v or 0")>>
      [] cls = "LightConeUpgrade" ->
             <<Field("required_player_level", "playerLevelRequire", "int", TRUE, Null,
                     "v or 0"),
               Field("required_world_level", "worldLevelRequire", "int", TRUE, Null,
                     "v or 0")>>
      [] cls = "Recipe" ->
             <<Field("coin_cost", "coinCost", "int", TRUE, Null, "v or 0"),
               Field("required_world_level", "worldLevelRequire", "int", TRUE, Null,
                     "v or 0"),
               Field("materials", "materialCost", "list", TRUE, Null,
                     "[... for x in v] if v else []")>>

Models == {"CharacterDetail", "Character", "SkillListSkill", "SkillTree", "BookDetail",
           "LightConeDetail", "CharacterUpgrade", "LightConeUpgrade", "Recipe"}

RECURSIVE ValidateFields(_, _, _, _, _)
\* Cls(**payload): the fields in declaration order from field i on; data is
\* what has been validated, invalid says a validation error is recorded
ValidateFields(fields, payload, i, data, invalid) ==
    IF i > Len(fields)
    THEN IF invalid THEN [ok |-> FALSE, err |-> "ValidationError", data |-> data]
         ELSE [ok |-> TRUE, err |-> "", data |-> data]
    ELSE LET f == fields[i]
         IN IF f.key \notin DOMAIN payload
            THEN IF f.required
                 THEN ValidateFields(fields, payload, i + 1, data, TRUE)
                 ELSE ValidateFields(fields, payload, i + 1,
                                     data @@ (f.name :> f.default), invalid)
            ELSE LET v == Convert(f.conv, payload[f.key])
                 IN IF v.t = "raise"
                    THEN [ok |-> FALSE, err |-> v.v[1], data |-> data]
                    ELSE IF TypeOk(f.type, v)
                    THEN ValidateFields(fields, payload, i + 1,
                                        data @@ (f.name :> v), invalid)
                    ELSE ValidateFields(fields, payload, i + 1, data, TRUE)

\* the empty record: no field validated yet
NoData == [n \in {} |-> Null]

Model(cls, payload) == ValidateFields(Fields(cls), payload, 1, NoData, FALSE)

\* the payload keys a model reads
KeysOf(cls) == {Fields(cls)[i].key : i \in DOMAIN Fields(cls)}

\* the values a payload gives a key: null, whole numbers, collections
JsonValues == {Null, Integer(0), Integer(5), Collection(<<>>), Collection(<<1>>)}

\* the payloads of a model: each key absent or with one of the values
PayloadsOf(cls) == UNION {[S -> JsonValues] : S \in SUBSET KeysOf(cls)}

ModelInputs == {[cls |-> c, payload |-> p] : c \in Models, p \in UNION {PayloadsOf(m) : m \in Models}}

InitModel ==
    /\ IdleClient
    /\ InitCommon
    /\ raw \in {x \in ModelInputs : DOMAIN x.payload \subseteq KeysOf(x.cls)}
    /\ stage = "none"
    /\ built = <<>>

\* raw.cls(**raw.payload)
BuildModel ==
    /\ stage = "none"
    /\ stage' = raw.cls
    /\ built' = <<Model(raw.cls, raw.payload)>>
    /\ UNCHANGED <<raw, pipeVars>>

NextModel == BuildModel

SpecModel == InitModel /\ [][NextModel]_vars

\* the collection fields of a model for which the payload carries null
NullCollections(cls, payload) ==
    {i \in DOMAIN Fields(cls) :
        /\ Fields(cls)[i].type = "list"
        /\ Fields(cls)[i].key \in DOMAIN payload
        /\ payload[Fields(cls)[i].key] = Null}

\* every key of the model is in the payload with a value of the field's
\* type, but for the fields in except
OtherwiseValid(cls, payload, except) ==
    \A i \in DOMAIN Fields(cls) \ except :
        /\ Fields(cls)[i].key \in DOMAIN payload
        /\ payload[Fields(cls)[i].key].t = (IF Fields(cls)[i].type = "list" THEN "list" ELSE "int")

\* C21: a collection field whose payload value is null is built as an empty
\* collection, and the record is built
C21_NullCollectionEmpty ==
    (/\ stage \in Models
     /\ NullCollections(stage, raw.payload) # {}
     /\ OtherwiseValid(stage, raw.payload, NullCollections(stage, raw.payload)))
        => /\ built[1].ok
           /\ \A i \in NullCollections(stage, raw.payload) :
                  built[1].data[Fields(stage)[i].name] = Collection(<<>>)

\* the "required level" fields of a model
LevelFields(cls) ==
    {i \in DOMAIN Fields(cls) :
        Fields(cls)[i].name \in {"required_player_level", "required_world_level"}}

\* the level fields for which the payload has null or no key
NoLevel(cls, payload) ==
    {i \in LevelFields(cls) :
        Fields(cls)[i].key \in DOMAIN payload => payload[Fields(cls)[i].key] = Null}

\* C22: a required level that is null or absent in the payload is built as
\* the integer 0, and the record is built
C22_RequiredLevelDefault ==
    (/\ stage \in {"CharacterUpgrade", "LightConeUpgrade", "Recipe"}
     /\ OtherwiseValid(stage, raw.payload, NoLevel(stage, raw.payload)))
        => /\ built[1].ok
           /\ \A i \in NoLevel(stage, raw.payload) :
                  built[1].data[Fields(stage)[i].name] = Integer(0)

\* the fields of a model that read the release key
ReleaseFields(cls) == {i \in DOMAIN Fields(cls) : Fields(cls)[i].key = "release"}

\* C23: a character payload builds with release_at None when release is 0
\* or absent, and with an instant when release is another number
C23_ReleaseAt ==
    (/\ stage \in {"Character", "CharacterDetail"}
     /\ OtherwiseValid(stage, raw.payload, ReleaseFields(stage))
     /\ "release" \in DOMAIN raw.payload => raw.payload["release"].t = "int")
        => /\ built[1].ok
           /\ built[1].data["release_at"] =
                  IF "release" \in DOMAIN raw.payload /\ raw.payload["release"] # Integer(0)
                  THEN Datetime(raw.payload["release"].v[1]) ELSE Null

\* the record of one entry of a map, as the flattening builds it
RecordOf(how, entry) ==
    IF how = "fetch_books" THEN FromValue(entry.value) ELSE FromKey(entry.key, entry.value)

IsBuilt(record) == record.ok

\* C24: in a list fetch the records that can be built are returned, also
\* when a sibling of theirs lacks its required id
C24_SiblingsSurvive ==
    (/\ stage = "fetch_books"
     /\ \E i \in DOMAIN raw : RecordOf(stage, raw[i]).ok)
        => /\ built[1].ok
           /\ built[1].items = SelectSeq([i \in DOMAIN raw |-> RecordOf(stage, raw[i])], IsBuilt)

\* the steps of format_str composed with the ruby markers deleted before
\* the pronoun pair is resolved
RubyBeforePronouns(text) ==
    replace_pronouns(remove_ruby_tags(
        Replace(Sub("clean", <<>>, text, 1), <<"\\", "n">>, <<"\n">>)))

\* C25: format_str gives what the composition tags and sprites, backslash-n,
\* ruby markers, pronoun pair gives
C25_StepOrder == stage = "format_str" => built[1] = RubyBeforePronouns(raw.text)

\* -------------------------------------------- field by field construction
MaxBuildPieces == 3

\* the fields of the two models with a substituted description, in the order
\* of their declaration; pydantic validates them in this order
Declared(cls) ==
    IF cls = "CharacterEidolon"
    THEN <<"id", "rank", "name", "params", "description", "skillAddLevelList", "icon">>
    ELSE <<"params", "description">>

\* the annotation of params: list[int | float] | None on the eidolon,
\* dict[str, list[int | float]] | None on the set effect
ParamsTypeOk(cls, params) ==
    IF cls = "CharacterEidolon" THEN params.kind \in {"list", "None"}
    ELSE params.kind \in {"dict", "None"}

RECURSIVE Reverse(_)
Reverse(s) == IF Len(s) = 0 THEN <<>> ELSE Append(Reverse(Tail(s)), Head(s))

\* s without its elements equal to x
Without(s, x) == SelectSeq(s, LAMBDA e : e # x)

\* the key orders a payload is drawn with: the declared one, the reverse one
\* (description ahead of params), and the declared one with no params key
KeyOrders(cls) ==
    {Declared(cls), Reverse(Declared(cls)), Without(Declared(cls), "params")}

HasKey(payload, key) == \E i \in DOMAIN payload.order : payload.order[i] = key

BuildPieces == {ListPlaceholder(0), DictPlaceholder(<<"k">>),
                <<"{", "F", "#", "a", "}", "{", "M", "#", "b", "}">>,
                <<"<", "b", ">">>, <<"%">>, <<"x">>}

BuildParams == {NoParams, ListParams(<<20>>), ListParams(<<3, 20>>),
                DictParams(<<[key |-> <<"k">>, values |-> <<20>>]>>)}

BuildInputs ==
    {[cls |-> c, order |-> o, text |-> t, params |-> p] :
        c \in {"CharacterEidolon", "SetEffect"},
        o \in KeyOrders("CharacterEidolon") \cup KeyOrders("SetEffect"),
        t \in TextsOf(BuildPieces, MaxBuildPieces),
        p \in BuildParams}

InitBuild ==
    /\ IdleClient
    /\ InitCommon
    /\ raw \in {i \in BuildInputs : /\ i.order \in KeyOrders(i.cls)
                                    /\ ~HasKey(i, "params") => i.params = NoParams}
    /\ stage = "none"
    /\ built = <<>>

\* the construction before any field is validated
NoFields == [pos |-> 1, done |-> {}, errors |-> {}, exc |-> "", params |-> NoParams,
             description |-> <<>>,
             subst |-> [ran |-> FALSE, text |-> <<>>, params |-> NoParams]]

\* cls(**raw)
BeginBuild ==
    /\ stage = "none"
    /\ stage' = "validating"
    /\ built' = NoFields
    /\ UNCHANGED <<raw, pipeVars>>

\* values.data.get("params"): the parsed params when the field is validated
Data_params(b) == IF "params" \in b.done THEN b.params ELSE NoParams

\* __format_description of the two classes
format_description(cls, v, params) ==
    IF cls = "CharacterEidolon" THEN replace_placeholders(format_str(v), params)
    ELSE replace_placeholders(v, params)

\* the field at position pos of the payload's own key order
FieldInPayloadOrder(payload, pos) ==
    IF pos <= Len(payload.order) THEN payload.order[pos] ELSE "params"

\* the field validated at position pos
FieldAt(payload, pos) == Declared(payload.cls)[pos]

\* the validation of one field named f
Validated(b, f, payload) ==
    LET next == [b EXCEPT !.pos = @ + 1]
    IN CASE f = "params" ->
              IF HasKey(payload, "params") /\ ParamsTypeOk(payload.cls, payload.params)
              THEN [next EXCEPT !.done = @ \cup {f}, !.params = payload.params]
              ELSE [next EXCEPT !.errors = @ \cup {f}]
         [] f = "description" ->
              LET p == Data_params(b)
                  d == format_description(payload.cls, payload.text, p)
                  ran == [next EXCEPT !.subst = [ran |-> TRUE, text |-> payload.text,
                                                 params |-> p]]
              IN IF d.ok THEN [ran EXCEPT !.done = @ \cup {f}, !.description = d.text]
                 ELSE [ran EXCEPT !.exc = d.err]
         [] OTHER -> [next EXCEPT !.done = @ \cup {f}]

\* the next field of the class is validated
ValidateField ==
    /\ stage = "validating"
    /\ built.pos <= Len(Declared(raw.cls))
    /\ built' = Validated(built, FieldAt(raw, built.pos), raw)
    /\ stage' = IF built'.exc # "" THEN "raised" ELSE "validating"
    /\ UNCHANGED <<raw, pipeVars>>

\* after the last field: ValidationError when a field failed, else
\* BaseModel.__format_fields and the record
FinishBuild ==
    /\ stage = "validating"
    /\ built.pos > Len(Declared(raw.cls))
    /\ IF built.errors # {}
       THEN /\ stage' = "raised"
            /\ built' = [built EXCEPT !.exc = "ValidationError"]
       ELSE /\ stage' = "built"
            /\ built' = [built EXCEPT !.description = format_str(@)]
    /\ UNCHANGED <<raw, pipeVars>>

NextBuild == BeginBuild \/ ValidateField \/ FinishBuild

SpecBuild == InitBuild /\ [][NextBuild]_vars

\* the payload carries a params value of the annotated type
SuppliesParams(payload) ==
    HasKey(payload, "params") /\ ParamsTypeOk(payload.cls, payload.params)

\* C26: when the description's substitution runs, the params of the same
\* payload are already parsed and are the ones it uses, whatever the order of
\* the payload's keys
C26_ParamsBeforeDescription ==
    (stage \in {"validating", "built", "raised"} /\ built.subst.ran /\ SuppliesParams(raw))
        => /\ "params" \in built.done
           /\ built.subst.params = raw.params

\* a record built from a payload whose description key comes ahead of its
\* params key, with a token the params replace
C26_Witness ==
    /\ stage = "built"
    /\ raw.order = Reverse(Declared(raw.cls))
    /\ raw.params # NoParams
    /\ built.subst.ran
    /\ built.description # format_str(raw.text)

\* replace_placeholders applied to the normalized raw description
SubstitutedNormalized(payload) ==
    replace_placeholders(format_str(payload.text), payload.params)

\* no token of the raw description that has a param is left in text, with or
\* without its '#'
TokensReplaced(payload, text) ==
    \A tv \in TokenValues(payload.params) :
        Contains(payload.text, tv[1]) => ~Contains(text, Tail(tv[1]))

\* C27: the built description of an eidolon or a set effect is
\* replace_placeholders of the normalized raw description, and every token
\* with a matching param is replaced in it
C27_SubstitutionOnNormalized ==
    (stage = "built" /\ SuppliesParams(raw) /\ SubstitutedNormalized(raw).ok)
        => /\ built.description = SubstitutedNormalized(raw).text
           /\ TokensReplaced(raw, built.description)

\* ---------------------------------------------------- the refresh, again
\* the call's last event is a failed response to the version request of its
\* own token refresh
RefreshFailed(t) ==
    /\ Len(log[t]) > 0
    /\ Last(log[t]).ev = "resp"
    /\ IsVersionUrl(Last(log[t]).url)
    /\ Last(log[t]).status # 200
    /\ arg[t].endpoint # "version"

\* C28: when the version request of a token refresh is answered with a
\* status other than 200, the call ends with the error of that status,
\* version.txt is what the call found, and no resource request was or will be
\* issued by the call
C28_FailedRefresh ==
    \A t \in Tasks :
        RefreshFailed(t) =>
            LET L == log[t]
            IN /\ pc[t] = "done"
               /\ result[t] = HandleError(Last(L).status)
               /\ result[t].kind \in ErrorKinds
               /\ L[1].ev = "read"
               /\ fileExists = (L[1].note = "exists")
               /\ fileData = L[1].tok
               /\ \A i \in DOMAIN L : L[i].ev # "write"
               /\ \A i \in NetIdx(L) : IsVersionUrl(L[i].url)

\* a refresh of an outdated token is answered with 404
C28_Witness ==
    /\ RefreshFailed(1)
    /\ Last(log[1]).status = 404
    /\ StoredOld(log[1][1])
    /\ fileData # <<>>
    /\ result[1].kind = "DataNotFoundError"

MaxFairCalls == 2

\* a started or unstarted client, version.txt absent, fresh or outdated
InitFair ==
    /\ session \in {"none", "open"}
    /\ isCached \in BOOLEAN
    /\ (session = "none" => isCached)
    /\ \/ fileExists = FALSE /\ fileData = <<>>
       \/ fileExists = TRUE /\ fileData \in LeftFiles
    /\ lang = "en"
    /\ cache = {}
    /\ saved = {}
    /\ now \in {0, DAY + 1}
    /\ ticks = 0
    /\ calls = 0
    /\ released = 0
    /\ closeCalls = 0
    /\ closeRaised = FALSE
    /\ restarted = FALSE
    /\ pc = [t \in Tasks |-> "idle"]
    /\ arg = [t \in Tasks |-> NoArg]
    /\ inner = [t \in Tasks |-> FALSE]
    /\ url = [t \in Tasks |-> NoUrl]
    /\ version = [t \in Tasks |-> NoVersion]
    /\ buf = [t \in Tasks |-> <<>>]
    /\ result = [t \in Tasks |-> NoResult]
    /\ log = [t \in Tasks |-> <<>>]
    /\ InitText

\* the next step of the call in progress: the event loop resumes it, the
\* transport answers its request
Progress(t) ==
    \/ GetVersionStep(t)
    \/ \E tok \in Tokens : Send(t, tok)
    \/ \E s \in Statuses, tok \in Tokens : Response(t, s, tok)
    \/ SaveOpen(t)
    \/ SaveWrite(t)
    \/ SaveClose(t)

NextFair ==
    \/ calls < MaxFairCalls /\ \E m \in Methods, uc \in BOOLEAN : Call(1, m, uc)
    \/ Progress(1)
    \/ Return(1)

\* one caller at a time; a call in progress is eventually resumed and a
\* request in flight eventually answered
SpecFair == InitFair /\ [][NextFair]_vars /\ WF_vars(Progress(1))

ReadIdx(L) == {i \in DOMAIN L : L[i].ev = "read"}
VersionNetIdx(L) == {i \in NetIdx(L) : IsVersionUrl(L[i].url)}
ResourceNetIdx(L) == {i \in NetIdx(L) : ~IsVersionUrl(L[i].url)}

\* the call reads version.txt at most once and before any request, not at
\* all when it fetches the version, and issues at most one version request
\* followed by at most one resource request
AtMostTwoRequests(t) ==
    LET L == log[t]
    IN /\ Cardinality(ReadIdx(L)) <= 1
       /\ \A i \in ReadIdx(L), j \in NetIdx(L) : i < j
       /\ arg[t].endpoint = "version" =>
              /\ ReadIdx(L) = {}
              /\ \A i \in DOMAIN L : L[i].ev # "write"
       /\ Cardinality(NetIdx(L)) <= 2
       /\ Cardinality(VersionNetIdx(L)) <= 1
       /\ Cardinality(ResourceNetIdx(L)) <= 1
       /\ \A i \in VersionNetIdx(L), j \in ResourceNetIdx(L) : i < j

\* C29: the version request is not version-gated, a facade call issues at
\* most one version request followed by at most one resource request, and a
\* call in progress ends, by returning or raising, once its requests are
\* answered
C29_VersionNotGated ==
    /\ [](\A t \in Tasks : AtMostTwoRequests(t))
    /\ \A t \in Tasks : (pc[t] # "idle") ~> (pc[t] = "done")

\* a call that refreshed the token has been answered twice and has returned
\* its data
C29_Witness ==
    /\ pc[1] = "done"
    /\ result[1] = Json
    /\ Cardinality(VersionNetIdx(log[1])) = 1
    /\ Cardinality(ResourceNetIdx(log[1])) = 1
    /\ Cardinality(ReadIdx(log[1])) = 1

\* a fetch of the version has been answered
C29_WitnessVersion ==
    /\ pc[1] = "done"
    /\ arg[1].endpoint = "version"
    /\ Cardinality(NetIdx(log[1])) = 1

\* the events of a call that carry a URL handed to session.get
RequestIdx(L) == {i \in DOMAIN L : L[i].ev \in {"net", "lookup"}}

\* C30: every request other than the version request carries a vh parameter,
\* whose value is the token of version.txt when the call's read found it
\* fresh and else the token the call's own version request returned; the
\* version request carries none
C30_VhOnEveryResource ==
    \A t \in Tasks :
        LET L == log[t]
        IN \A i \in RequestIdx(L) :
              IF IsVersionUrl(L[i].url) THEN ~L[i].url.hasVh
              ELSE /\ L[i].url.hasVh
                   /\ L[1].ev = "read"
                   /\ IF StoredFresh(L[1])
                      THEN /\ L[i].url.vh = TokenPart(L[1].tok)
                           /\ VersionNetIdx(L) = {}
                      ELSE \E j \in 1..(i - 1) :
                              /\ L[j].ev = "resp"
                              /\ IsVersionUrl(L[j].url)
                              /\ L[j].status = 200
                              /\ L[i].url.vh = L[j].tok

\* the static changelog request, sent with the token of a fresh version.txt
C30_Witness ==
    /\ Len(log[1]) > 1
    /\ StoredFresh(log[1][1])
    /\ Last(log[1]).ev = "net"
    /\ Last(log[1]).url.seg = "static"
    /\ Last(log[1]).url.endpoint # "version"
    /\ Last(log[1]).url.hasVh

\* a resource request sent with the token of the call's own refresh, which
\* differs from the stored one
C30_WitnessRefreshed ==
    /\ Len(log[1]) > 3
    /\ log[1][1].note = "exists"
    /\ Last(log[1]).ev = "net"
    /\ ~IsVersionUrl(Last(log[1]).url)
    /\ VersionNetIdx(log[1]) # {}
    /\ Last(log[1]).url.vh # TokenPart(log[1][1].tok)

====
